---- MODULE Spec2Model ----
(***************************************************************************)
(* One SVGRender instance (src/public_html/svg-render.js) together with    *)
(* the browser event loop that runs its deferred callbacks: the timers     *)
(* created by setTimeout, the decode completions (onload) of the Image     *)
(* objects created by renderNextFrame, and the completions of the          *)
(* FileReader objects created by load.  Every callback runs to completion  *)
(* before the next one starts, so each action below is one whole call of   *)
(* a public method or one whole callback.                                  *)
(*                                                                         *)
(* JavaScript values are carried as follows.                               *)
(*  - A field that is undefined until first assigned and is only ever      *)
(*    read in a boolean context (loaded, finished, interrupted,            *)
(*    svgElement) is a BOOLEAN whose FALSE also stands for undefined.      *)
(*  - A missing numeric option is 0: the code tests options with || and    *)
(*    &&, under which undefined and 0 behave alike.                        *)
(*  - options.time is a number of seconds; the model carries it in         *)
(*    thousandths of a second, so options.time * 1000 is the carried       *)
(*    integer.                                                             *)
(*  - FPS, timeMS and SVGtime are quotients of integers and are carried    *)
(*    as [num, den]; den = 0 stands for the NaN or Infinity of a division  *)
(*    by zero.                                                             *)
(*  - A timer handle is opaque.  this.nextFrame is "null", "pending" (the  *)
(*    handle of a timer that has not fired) or "stale" (the handle of a    *)
(*    timer that has fired).  Pending timers whose handle this.nextFrame   *)
(*    no longer holds are counted in orphanTimers.                         *)
(*  - In Spec the picture of a scene is named by the imagesDoneCount its   *)
(*    render step read.  What a step does to the scene (cloneNode,         *)
(*    filterOut, exportStyle, importStyle) is a function of the scene      *)
(*    alone and is run on every scene of Scenes in SpecStyle.              *)
(*                                                                         *)
(* Specifications: Spec (the methods and the event loop), SpecFair (Spec   *)
(* with a fair event loop), SpecCfg (load and render over every            *)
(* combination of options), SpecStyle (the style pipeline of a step).      *)
(***************************************************************************)
EXTENDS Integers, Sequences, FiniteSets, TLC

(* ---------------------------- bounds ---------------------------------- *)
\* largest options.FPS and options.imagesCount tried
MaxFPS == 3
MaxImagesCount == 3
\* calls of load, render, pause and resume made by the user in one run
MaxCalls == 4
\* largest frame count of a job whose render loop is run (Spec)
MaxFrames == 2
\* most child nodes of the root and of a group in a scene (SpecStyle)
MaxKids == 2

(* ------------------------ program constants --------------------------- *)
DefaultFPS == 60
DefaultTimeMS == 1000
DefaultBeginMS == 0

MsgNotLoaded == "Input file not loaded yet"
MsgConflict == "Conflicting parameters FPS,time,imagesCount"
MsgWrongType == "Wrong file/blob type, should be image/svg+xml, is text/plain"
MsgUnknownType == "Unknown svg type in svg-render!"

(* ------------------------------ inputs -------------------------------- *)
\* options.time, in thousandths of a second (0 = not given)
OptTime == {0, 25, 500}

\* options.begin, in seconds (0 = not given)
OptBegin == {0, 1}

Options == [FPS : 0..MaxFPS, time : OptTime, imagesCount : 0..MaxImagesCount,
            begin : OptBegin]

NoOptions == [FPS |-> 0, time |-> 0, imagesCount |-> 0, begin |-> 0]

LoadKinds == {"element", "string", "blob", "badblob", "unknown"}

VARIABLES
    loaded, interrupted, finished, svgElement, afterLoadCB,
    reader, oldReaders, loadTimers,
    errMessage, callback, progressSignal,
    beginMS, FPS, timeMS, imagesCount, SVGtime, imagesDoneCount, images,
    nextFrame, orphanTimers, inflight, svgImage, canvas, recorder,
    \* history variables: what the callers observed.  loadThrown is the
    \* exception the last load() call threw, "" if none;
    \* discardedJob whether load() was called, and returned, over a job
    \* under way;
    \* callbackLog the invocations of the callbacks given to render()
    progressLog, loadCbLog, lastRender, nRender, nLoad, nPause, nResume,
    halted, pauseMark, pausePhase, pausedInFlight,
    loadThrown, discardedJob, callbackLog,
    \* the style pipeline of one render step (lines 320-330): the live
    \* scene, its clone, the style snapshot, and the position in the step
    scene, svgElementNew, additionalData, stylePc

objVars == <<loaded, interrupted, finished, svgElement, afterLoadCB,
             errMessage, callback, progressSignal,
             beginMS, FPS, timeMS, imagesCount, SVGtime, imagesDoneCount, images,
             nextFrame, canvas, svgImage>>
envVars == <<reader, oldReaders, loadTimers, orphanTimers, inflight, recorder>>
histVars == <<progressLog, loadCbLog, lastRender, nRender, nLoad, nPause,
              nResume, halted, pauseMark, pausePhase, pausedInFlight,
              loadThrown, discardedJob, callbackLog>>
styleVars == <<scene, svgElementNew, additionalData, stylePc>>
vars == <<objVars, envVars, histVars, styleVars>>

(* ----------------------------- helpers -------------------------------- *)
Rat(n, d) == [num |-> n, den |-> d]

\* mutant: the default is not applied
OrDefaultDropped(a, b) == a

\* a || b on numbers
OrDefault(a, b) == IF a = 0 THEN b ELSE a

\* mutant: Math.floor in place of Math.round
RoundDown(num, den) == num \div den

\* Math.round of num/den for num >= 0, den > 0: ties go up
Round(num, den) == (2 * num + den) \div (2 * den)

\* arr[i] = v on a JavaScript array (i is 0-based)
ArrayStore(arr, i, v) ==
    IF i < Len(arr) THEN [arr EXCEPT ![i + 1] = v] ELSE Append(arr, v)

RemoveAt(s, k) == [j \in 1..(Len(s) - 1) |-> IF j < k THEN s[j] ELSE s[j + 1]]

\* setTimeout(renderNextFrame) whose handle is stored in this.nextFrame: a
\* pending timer whose handle is overwritten keeps running
OrphansAfterSchedule == orphanTimers + (IF nextFrame = "pending" THEN 1 ELSE 0)

\* the calls the user has made so far
Calls == nLoad + nRender + nPause + nResume

(* ------------------------- scenes and matrices ------------------------ *)
\* lines 327-328: the tags removed from the clone and ignored by exportStyle
DriverTags == <<"animate", "animateTransform", "animateColor",
                "animateMotion", "animateColor">>

\* tags.indexOf(x) >= 0
InList(tags, x) == \E i \in 1..Len(tags) : tags[i] = x

\* an SVGMatrix: the affine map  x' = a x + c y + e,  y' = b x + d y + f
Matrix(a, b, c, d, e, f) == [a |-> a, b |-> b, c |-> c, d |-> d, e |-> e, f |-> f]

\* createSVGMatrix(), lines 436 and 506
Identity == Matrix(1, 0, 0, 1, 0, 0)

\* m.multiply(n): m post-multiplied by n
Multiply(m, n) ==
    Matrix(m.a * n.a + m.c * n.b,        m.b * n.a + m.d * n.b,
           m.a * n.c + m.c * n.d,        m.b * n.c + m.d * n.d,
           m.a * n.e + m.c * n.f + m.e,  m.b * n.e + m.d * n.f + m.f)

\* getReadable, lines 515-517: the text "matrix(a b c d e f)", kept as the
\* sequence of its tokens
GetReadable(m) == <<"matrix", m.a, m.b, m.c, m.d, m.e, m.f>>

SeqsUpTo(S, n) == UNION {[1..k -> S] : k \in 0..n}

\* The shapes of the scenes tried: an <svg> with at most MaxKids child
\* nodes, each a shape, a driver, a text node, a group of at most MaxKids
\* shapes and drivers, or an animateMotion holding an mpath.
LeafShape(t) == [tag |-> t, kids |-> <<>>]
GroupKids == {LeafShape(t) : t \in {"rect", "animate"}}
SceneKids ==
    {LeafShape(t) : t \in {"rect", "animate", "#text"}}
    \cup {[tag |-> "g", kids |-> ks] : ks \in SeqsUpTo(GroupKids, MaxKids)}
    \cup {[tag |-> "animateMotion", kids |-> <<LeafShape("mpath")>>]}
Shapes == {[tag |-> "svg", kids |-> ks] : ks \in SeqsUpTo(SceneKids, MaxKids)}

\* the names window.getComputedStyle lists for a node, in its order
StyleNames == {<<"fill">>, <<"fill", "width", "line-height">>,
               <<"visibility", "height", "stroke", "fill">>}

NoStyle == [n \in {} |-> n]

\* The live node of shape sh at position path (the indices in childNodes
\* from the root, which serve as the node's identity), as the browser
\* presents it at the time sought:
\*   computed       window.getComputedStyle(el): name, value and priority
\*   style          the declarations of the node's own style attribute
\*   transform      the node's transform attribute, <<>> when absent
\*   ctm            <<parentNode.getCTM().inverse().multiply(getCTM())>>,
\*                  <<>> for the root, whose parent has no getCTM
\*   transformAnim  the product of transform.animVal: getTransformAnim()
\*   paired         the snapshot nodes importStyle applied to the node
\* A text node has no tagName; "#text" stands for undefined.
RECURSIVE LiveNode(_, _, _, _)
LiveNode(sh, path, names, moved) ==
    [tagName |-> sh.tag,
     elem |-> sh.tag # "#text",
     id |-> path,
     childNodes |-> [i \in 1..Len(sh.kids) |->
                        LiveNode(sh.kids[i], Append(path, i), names, moved)],
     computed |-> [k \in 1..Len(names) |->
                     [name |-> names[k], value |-> <<names[k], path>>,
                      priority |-> IF names[k] = "stroke" THEN "important" ELSE ""]],
     style |-> IF sh.tag = "rect"
               THEN "fill" :> [value |-> <<"authored">>, priority |-> ""]
               ELSE NoStyle,
     transform |-> <<>>,
     ctm |-> IF path = <<>> THEN <<>>
             ELSE <<Matrix(2, 0, 0, 2, Len(path), path[Len(path)])>>,
     transformAnim |-> IF moved THEN Matrix(1, 0, 0, 1, Len(path) + 1, 1)
                       ELSE Identity,
     paired |-> <<>>]

Scenes ==
    {LiveNode(sh, <<>>, names, moved) :
        sh \in Shapes, names \in StyleNames, moved \in BOOLEAN}

\* el.children: the child nodes that are elements
Children(el) == SelectSeq(el.childNodes, LAMBDA n : n.elem)

(* ------------------------------ filterOut ----------------------------- *)
\* mutant: the loop goes on with the next index after a removal
AfterRemovalGoesOn(i) == i + 1

\* line 286: i = -1, so that after i++ the loop starts again at the first
\* child node (the index is 1-based here)
AfterRemoval(i) == 1

\* filterOut(htmlElement, tags, lvl), lines 277-294, as the element it
\* leaves; the count it returns is not used by its caller.  FilterLoop is
\* the for loop of lines 283-292 at index i.
RECURSIVE FilterOut(_, _)
RECURSIVE FilterLoop(_, _, _)
FilterLoop(childNodes, tags, i) ==
    IF i > Len(childNodes) THEN childNodes
    ELSE IF InList(tags, childNodes[i].tagName)
         THEN FilterLoop(RemoveAt(childNodes, i), tags, AfterRemoval(i))
         ELSE FilterLoop([childNodes EXCEPT ![i] = FilterOut(@, tags)],
                         tags, i + 1)

FilterOut(htmlElement, tags) ==
    [htmlElement EXCEPT !.childNodes = FilterLoop(@, tags, 1)]

(* ----------------------------- exportStyle ---------------------------- *)
\* line 419: the names matching /^height$/, /^width$/ or /^visibility/
ExcludedName(name) == name \in {"height", "width", "visibility"}

\* lines 416-427: the loop runs from the last computed property to the
\* first and pushes the ones not excluded
RECURSIVE StyleValues(_, _)
StyleValues(styles, i) ==
    IF i = 0 THEN <<>>
    ELSE (IF ExcludedName(styles[i].name) THEN <<>> ELSE <<styles[i]>>)
         \o StyleValues(styles, i - 1)

\* exportStyle(el, ignored), lines 393-429.  The snapshot has a ctm only
\* when one was computed (lines 410-414) and always a transformAnim
\* (getTransformAnim returns a matrix, lines 505-514).  The field of names
\* the live node the snapshot was taken from.
RECURSIVE ExportStyle(_, _)
ExportStyle(el, ignored) ==
    LET kept == SelectSeq(Children(el), LAMBDA c : ~InList(ignored, c.tagName))
        children == [i \in 1..Len(kept) |-> ExportStyle(kept[i], ignored)]
        value == StyleValues(el.computed, Len(el.computed))
    IN IF el.ctm # <<>>
       THEN [children |-> children, transformAnim |-> el.transformAnim,
             ctm |-> el.ctm[1], value |-> value, of |-> el.id]
       ELSE [children |-> children, transformAnim |-> el.transformAnim,
             value |-> value, of |-> el.id]

(* ----------------------------- importStyle ---------------------------- *)
\* el.style.setProperty(name, value, priority), lines 454-459
RECURSIVE SetProperties(_, _, _)
SetProperties(style, value, n) ==
    IF n > Len(value) THEN style
    ELSE SetProperties(
             (value[n].name :> [value |-> value[n].value,
                                priority |-> value[n].priority]) @@ style,
             value, n + 1)

\* importStyle(el, data), lines 431-460, as the element it leaves; data is
\* <<>> when undefined.  ImportChildren is the loop of lines 449-452 over
\* el.children: k runs over childNodes, i counts the elements among them.
RECURSIVE ImportStyle(_, _)
RECURSIVE ImportChildren(_, _, _, _)
ImportChildren(nodes, datas, k, i) ==
    IF k > Len(nodes) THEN nodes
    ELSE IF nodes[k].elem
         THEN ImportChildren(
                  [nodes EXCEPT ![k] =
                      ImportStyle(@, IF i <= Len(datas) THEN <<datas[i]>> ELSE <<>>)],
                  datas, k + 1, i + 1)
         ELSE ImportChildren(nodes, datas, k + 1, i)

ImportStyle(el, d) ==
    IF d = <<>> THEN el
    ELSE LET data == d[1]
             withCtm == IF "ctm" \in DOMAIN data
                        THEN Multiply(Identity, data.ctm) ELSE Identity
             matrix == IF "transform" \in DOMAIN data
                       THEN Multiply(withCtm, data.transform) ELSE withCtm
         IN [el EXCEPT !.transform = <<GetReadable(matrix)>>,
                       !.childNodes = ImportChildren(@, data.children, 1, 1),
                       !.style = SetProperties(@, data.value, 1),
                       !.paired = Append(@, data.of)]

\* cloneNode(true), line 320: the copy has the attributes and the child
\* nodes of the original; what the browser computes for the live node
\* (computed style, matrices) is not part of it
RECURSIVE CloneNode(_)
CloneNode(node) ==
    [tagName |-> node.tagName, elem |-> node.elem, id |-> node.id,
     childNodes |-> [i \in 1..Len(node.childNodes) |-> CloneNode(node.childNodes[i])],
     style |-> node.style, transform |-> node.transform, paired |-> <<>>]

(* ---------------------------- initial state --------------------------- *)
\* the instance after new SVGRender(), with no event pending
InitJob ==
    /\ loaded = FALSE /\ interrupted = FALSE /\ finished = FALSE
    /\ svgElement = FALSE /\ afterLoadCB = 0
    /\ reader = "none" /\ oldReaders = 0 /\ loadTimers = 0
    /\ errMessage = "" /\ callback = 0 /\ progressSignal = 0
    /\ beginMS = 0 /\ FPS = Rat(0, 0) /\ timeMS = Rat(0, 0) /\ imagesCount = 0
    /\ SVGtime = Rat(0, 0) /\ imagesDoneCount = 0 /\ images = <<>>
    /\ nextFrame = "null" /\ orphanTimers = 0 /\ inflight = <<>>
    /\ svgImage = [at |-> 0, complete |-> TRUE]
    /\ canvas = [def |-> FALSE, pix |-> <<>>]
    /\ recorder = "none"
    /\ progressLog = <<>> /\ loadCbLog = <<>>
    /\ lastRender = [opts |-> NoOptions, ret |-> FALSE]
    /\ nRender = 0 /\ nLoad = 0 /\ nPause = 0 /\ nResume = 0
    /\ halted = FALSE /\ pauseMark = <<>> /\ pausePhase = "none"
    /\ pausedInFlight = "no"
    /\ loadThrown = ""
    /\ discardedJob = FALSE /\ callbackLog = <<>>

\* no render step has touched the scene
InitStyle(sc) ==
    /\ scene = sc
    /\ svgElementNew = <<>> /\ additionalData = <<>>
    /\ stylePc = "seeked"

Init == InitJob /\ InitStyle(LiveNode(LeafShape("svg"), <<>>, <<"fill">>, FALSE))

(* ------------------------------- load --------------------------------- *)
\* load(svg, callback), lines 40-59: run on every entry of load, also on the
\* re-entry from the FileReader completion and from the markup-string branch
LoadReset(cb) ==
    /\ interrupted' = FALSE
    /\ afterLoadCB' = cb
    /\ finished' = FALSE

\* load reaching the SVGSVGElement branch, lines 101-115
LoadElement(cb) ==
    /\ LoadReset(cb)
    /\ svgElement' = TRUE
    /\ loaded' = TRUE
    /\ loadTimers' = loadTimers + 1

\* History of pause(): pauseMark is <<imagesDoneCount>> as it was at the
\* last pause() called while a step was scheduled and no image was in
\* flight; pausePhase says whether resume() was called since ("resumed") and
\* whether a frame was produced since ("delivered").  pausedInFlight is
\* "yes" after a pause() called while an image was in flight, and "faulted"
\* once renderNextFrame has thrown after it.  load and an accepted render
\* start the history afresh.
PauseHistoryReset ==
    /\ pauseMark' = <<>>
    /\ pausePhase' = "none"
    /\ pausedInFlight' = "no"

\* the kinds of source with which load() returns normally
AcceptedKinds == {"element", "string", "blob"}

\* a job accepted by render() that has neither finished nor thrown
JobUnderWay == recorder = "recording" /\ ~halted

\* load(svg, callback) called by the user with a fresh callback.
\*  "element": an SVGSVGElement;  "string": markup whose first element is an
\*  <svg>;  "blob": a Blob or File of type image/svg+xml;  "badblob": a Blob
\*  or File of another type (throws, line 63);  "unknown": anything else
\*  (throws, line 117)
Load(kind) ==
    /\ Calls < MaxCalls
    /\ nLoad' = nLoad + 1
    /\ PauseHistoryReset
    /\ halted' = FALSE
    /\ discardedJob' = (discardedJob \/ (JobUnderWay /\ kind \in AcceptedKinds))
    /\ CASE kind \in {"element", "string"} ->
              /\ LoadElement(nLoad + 1)
              /\ loadThrown' = ""
              /\ UNCHANGED <<reader, oldReaders>>
         [] kind = "blob" ->
              /\ LoadReset(nLoad + 1)
              /\ loaded' = FALSE
              /\ reader' = "pending"
              /\ oldReaders' = oldReaders + (IF reader = "pending" THEN 1 ELSE 0)
              /\ loadThrown' = ""
              /\ UNCHANGED <<svgElement, loadTimers>>
         [] OTHER ->
              /\ LoadReset(nLoad + 1)
              /\ loaded' = FALSE
              /\ loadThrown' = IF kind = "badblob" THEN MsgWrongType
                                ELSE MsgUnknownType
              /\ UNCHANGED <<svgElement, loadTimers, reader, oldReaders>>
    /\ UNCHANGED <<errMessage, callback, progressSignal, beginMS, FPS, timeMS,
                   imagesCount, SVGtime, imagesDoneCount, images, nextFrame,
                   canvas, svgImage, orphanTimers, inflight, recorder,
                   progressLog, loadCbLog, lastRender, nRender, nPause, nResume,
                   callbackLog, styleVars>>

\* reader.onload, lines 73-85: the completion of a FileReader started by
\* load.  The handler reads this.reader, the reader of the latest load: the
\* completion of an older reader finds the result of the latest one, or
\* null (and then throws on null.match) while the latest is still reading.
ReaderOnload(which) ==
    /\ \/ /\ which = "current"
          /\ reader = "pending"
          /\ reader' = "done"
          /\ LoadElement(afterLoadCB)
          /\ PauseHistoryReset
          /\ halted' = FALSE
          /\ UNCHANGED oldReaders
       \/ /\ which = "old"
          /\ oldReaders > 0
          /\ oldReaders' = oldReaders - 1
          /\ IF reader = "done"
             THEN /\ LoadElement(afterLoadCB)
                  /\ PauseHistoryReset
                  /\ halted' = FALSE
             ELSE UNCHANGED <<interrupted, afterLoadCB, finished, svgElement,
                              loaded, loadTimers, pauseMark, pausePhase,
                              pausedInFlight, halted>>
          /\ UNCHANGED reader
    /\ UNCHANGED <<errMessage, callback, progressSignal, beginMS, FPS, timeMS,
                   imagesCount, SVGtime, imagesDoneCount, images, nextFrame,
                   canvas, svgImage, orphanTimers, inflight, recorder,
                   progressLog, loadCbLog, lastRender, nRender, nLoad, nPause, nResume,
                   loadThrown, discardedJob, callbackLog, styleVars>>

\* the timer of lines 111-113 fires: this.afterLoadCB(null, this), with
\* this.afterLoadCB read when the timer fires
AfterLoadTimer ==
    /\ loadTimers > 0
    /\ loadTimers' = loadTimers - 1
    /\ loadCbLog' = Append(loadCbLog, afterLoadCB)
    /\ UNCHANGED <<objVars, reader, oldReaders, orphanTimers, inflight, recorder,
                   progressLog, lastRender, nRender, nLoad, nPause, nResume,
                   halted, pauseMark, pausePhase, pausedInFlight,
                   loadThrown, discardedJob, callbackLog, styleVars>>

(* ------------------------------ render -------------------------------- *)
\* mutant: render does not test this.loaded
RenderPreconditionDropped == TRUE

\* line 147: render goes on only when this.loaded is truthy
RenderPrecondition == loaded

\* line 187: Math.round(this.FPS * this.timeMS / 1000)
InitialImagesCount(fps, ms) == Round(fps * ms, 1000)

\* line 188: options.imagesCount was given and differs from the computed count
ImagesCountDiffers(o, count) == o.imagesCount # 0 /\ o.imagesCount # count

\* line 190: FPS and time were given too
ConflictingParameters(o) == o.time # 0 /\ o.FPS # 0

\* lines 195-199: the value recomputed when imagesCount differs and one of
\* time, FPS was given; this.imagesCount itself is not assigned again
ReconciledFPS(o, fps, ms, count) ==
    IF o.time # 0 THEN Rat(count * 1000, ms) ELSE Rat(fps, 1)

ReconciledTimeMS(o, fps, ms, count) ==
    IF o.time = 0 /\ o.FPS # 0 THEN Rat(count * 1000, fps) ELSE Rat(ms, 1)

\* render(options, callback) called by the user with a fresh callback and a
\* fresh progressSignal, both named by the number of the call
Render(o) ==
    /\ Calls < MaxCalls
    /\ nRender' = nRender + 1
    /\ callback' = nRender + 1
    /\ IF ~RenderPrecondition
       THEN /\ errMessage' = MsgNotLoaded
            /\ lastRender' = [opts |-> o, ret |-> FALSE]
            /\ UNCHANGED <<finished, progressSignal, beginMS, FPS, timeMS,
                           imagesCount, SVGtime, imagesDoneCount, images,
                           nextFrame, orphanTimers, canvas, recorder,
                           progressLog, halted, pauseMark, pausePhase,
                           pausedInFlight, discardedJob>>
       ELSE LET fps == OrDefault(o.FPS, DefaultFPS)
                ms == OrDefault(o.time, DefaultTimeMS)
                count == InitialImagesCount(fps, ms)
            IN /\ progressSignal' = nRender + 1
               /\ progressLog' = <<>>
               /\ beginMS' = OrDefault(o.begin * 1000, DefaultBeginMS)
               /\ imagesCount' = count
               /\ IF ImagesCountDiffers(o, count) /\ ConflictingParameters(o)
                  THEN /\ FPS' = Rat(fps, 1)
                       /\ timeMS' = Rat(ms, 1)
                       /\ finished' = TRUE
                       /\ errMessage' = MsgConflict
                       /\ lastRender' = [opts |-> o, ret |-> FALSE]
                       /\ UNCHANGED <<SVGtime, imagesDoneCount, images,
                                      nextFrame, orphanTimers, canvas, recorder,
                                      halted, pauseMark, pausePhase,
                                      pausedInFlight, discardedJob>>
                  ELSE /\ FPS' = IF ImagesCountDiffers(o, count)
                                 THEN ReconciledFPS(o, fps, ms, count)
                                 ELSE Rat(fps, 1)
                       /\ timeMS' = IF ImagesCountDiffers(o, count)
                                    THEN ReconciledTimeMS(o, fps, ms, count)
                                    ELSE Rat(ms, 1)
                       /\ SVGtime' = Rat(0, 1)
                       /\ imagesDoneCount' = 0
                       /\ images' = <<>>
                       /\ nextFrame' = "pending"
                       /\ orphanTimers' = OrphansAfterSchedule
                       /\ canvas' = [def |-> TRUE, pix |-> <<>>]
                       /\ recorder' = "recording"
                       /\ lastRender' = [opts |-> o, ret |-> TRUE]
                       /\ halted' = FALSE
                       /\ PauseHistoryReset
                       /\ discardedJob' = FALSE
                       /\ UNCHANGED <<finished, errMessage>>
    /\ UNCHANGED <<loaded, interrupted, svgElement, afterLoadCB, svgImage,
                   reader, oldReaders, loadTimers, inflight,
                   loadCbLog, nLoad, nPause, nResume,
                   loadThrown, callbackLog, styleVars>>

(* -------------------------- renderNextFrame --------------------------- *)
\* line 314: beginMS + Math.round(1000 * imagesDoneCount) / FPS
SVGtimeAt(count) ==
    Rat(beginMS * FPS.num + 1000 * count * FPS.den, FPS.num)

\* mutant: renderNextFrame goes on while interrupted
RenderStepFaultIgnoresPause == ~svgElement

\* lines 302-311: the two conditions under which renderNextFrame throws
RenderStepFault == ~svgElement \/ interrupted

\* A timer created by setTimeout(this.renderNextFrame.bind(this), 0) fires:
\* "next" is the timer whose handle this.nextFrame holds, "orphan" one whose
\* handle was overwritten.  renderNextFrame seeks the scene to SVGtime and
\* starts the decode of a new Image of it (lines 333-364); the frame is
\* produced by that image's onload.
RenderNextFrame(which) ==
    /\ \/ /\ which = "next"
          /\ nextFrame = "pending"
          /\ nextFrame' = "stale"
          /\ UNCHANGED orphanTimers
       \/ /\ which = "orphan"
          /\ orphanTimers > 0
          /\ orphanTimers' = orphanTimers - 1
          /\ UNCHANGED nextFrame
    /\ IF RenderStepFault
       THEN /\ halted' = TRUE
            /\ pausedInFlight' = IF pausedInFlight = "yes" THEN "faulted"
                                 ELSE pausedInFlight
            /\ UNCHANGED <<SVGtime, inflight, svgImage>>
       ELSE /\ SVGtime' = SVGtimeAt(imagesDoneCount)
            /\ inflight' = Append(inflight, [at |-> imagesDoneCount])
            /\ svgImage' = [at |-> imagesDoneCount, complete |-> FALSE]
            /\ UNCHANGED <<halted, pausedInFlight>>
    /\ UNCHANGED <<loaded, interrupted, finished, svgElement, afterLoadCB,
                   errMessage, callback, progressSignal, beginMS, FPS, timeMS,
                   imagesCount, imagesDoneCount, images, canvas,
                   reader, oldReaders, loadTimers, recorder,
                   progressLog, loadCbLog, lastRender, nRender, nLoad, nPause, nResume,
                   pauseMark, pausePhase,
                   loadThrown, discardedJob, callbackLog, styleVars>>

(* ------------------------- svgImage.onload ---------------------------- *)
\* line 350: another step is scheduled while the count, already incremented,
\* is at most imagesCount
ContinueRendering(doneCount) == doneCount <= imagesCount

\* lines 336-341: the handler draws this.svgImage, the image of the latest
\* render step.  While that image has not been decoded its width and height
\* are 0: the canvas is resized to 0 x 0 and nothing is drawn.
CanvasAfterDraw(img) ==
    [def |-> TRUE, pix |-> IF img.complete THEN <<img.at>> ELSE <<>>]

\* The decode of the k-th image in flight completes and its onload handler
\* runs (lines 334-356).  The handler throws on this.canvas.getContext when
\* render never assigned this.canvas.
SvgImageOnload(k) ==
    /\ k \in 1..Len(inflight)
    /\ inflight' = RemoveAt(inflight, k)
    /\ LET latest == k = Len(inflight) /\ ~svgImage.complete
           img == IF latest THEN [svgImage EXCEPT !.complete = TRUE] ELSE svgImage
       IN /\ svgImage' = img
          /\ IF ~canvas.def
             THEN UNCHANGED <<canvas, progressLog, images, imagesDoneCount,
                              nextFrame, orphanTimers, finished, recorder,
                              pauseMark, pausePhase>>
             ELSE /\ canvas' = CanvasAfterDraw(img)
                  /\ progressLog' = Append(progressLog, <<imagesDoneCount, imagesCount>>)
                  /\ images' = ArrayStore(images, imagesDoneCount, canvas'.pix)
                  /\ imagesDoneCount' = imagesDoneCount + 1
                  /\ pausePhase' = IF pausePhase \in {"paused", "resumed"}
                                    THEN "delivered" ELSE pausePhase
                  /\ UNCHANGED pauseMark
                  /\ IF ContinueRendering(imagesDoneCount + 1)
                     THEN /\ nextFrame' = "pending"
                          /\ orphanTimers' = OrphansAfterSchedule
                          /\ UNCHANGED <<finished, recorder>>
                     ELSE /\ finished' = TRUE
                          /\ recorder' = "inactive"
                          /\ UNCHANGED <<nextFrame, orphanTimers>>
    /\ UNCHANGED <<loaded, interrupted, svgElement, afterLoadCB,
                   errMessage, callback, progressSignal, beginMS, FPS, timeMS,
                   imagesCount, SVGtime,
                   reader, oldReaders, loadTimers,
                   loadCbLog, lastRender, nRender, nLoad, nPause, nResume,
                   halted, pausedInFlight,
                   loadThrown, discardedJob, callbackLog, styleVars>>

\* decodes complete in any order
ImageOnload == \E k \in 1..Len(inflight) : SvgImageOnload(k)

(* -------------------------- pause / resume ---------------------------- *)
\* pause(), lines 370-374: clearTimeout cancels the timer whose handle
\* this.nextFrame holds, if it has not fired; other pending timers stay
Pause ==
    /\ Calls < MaxCalls
    /\ nPause' = nPause + 1
    /\ interrupted' = TRUE
    /\ nextFrame' = "null"
    /\ IF nextFrame = "pending" /\ inflight = <<>>
       THEN /\ pauseMark' = <<imagesDoneCount>>
            /\ pausePhase' = "paused"
       ELSE UNCHANGED <<pauseMark, pausePhase>>
    /\ pausedInFlight' = IF inflight # <<>> THEN "yes" ELSE pausedInFlight
    /\ UNCHANGED <<loaded, finished, svgElement, afterLoadCB,
                   errMessage, callback, progressSignal, beginMS, FPS, timeMS,
                   imagesCount, SVGtime, imagesDoneCount, images, canvas, svgImage,
                   reader, oldReaders, loadTimers, orphanTimers, inflight, recorder,
                   progressLog, loadCbLog, lastRender, nRender, nLoad, nResume, halted,
                   loadThrown, discardedJob, callbackLog, styleVars>>

\* line 380: resume returns at once when finished or not interrupted
ResumeNotNeeded == finished \/ ~interrupted

\* line 386: resume schedules a step only when this.nextFrame is falsy
ResumeSchedules == nextFrame = "null"

\* resume(), lines 379-390
Resume ==
    /\ IF ResumeNotNeeded
       THEN UNCHANGED <<interrupted, nextFrame, pausePhase, pausedInFlight,
                        nResume>>
       ELSE /\ Calls < MaxCalls
            /\ nResume' = nResume + 1
            /\ interrupted' = FALSE
            /\ nextFrame' = IF ResumeSchedules THEN "pending" ELSE nextFrame
            /\ pausePhase' = IF pausePhase = "paused" THEN "resumed"
                              ELSE pausePhase
            /\ pausedInFlight' = "no"
    /\ UNCHANGED <<loaded, finished, svgElement, afterLoadCB,
                   errMessage, callback, progressSignal, beginMS, FPS, timeMS,
                   imagesCount, SVGtime, imagesDoneCount, images, canvas, svgImage,
                   reader, oldReaders, loadTimers, orphanTimers, inflight, recorder,
                   progressLog, loadCbLog, lastRender, nRender, nLoad, nPause,
                   halted, pauseMark,
                   loadThrown, discardedJob, callbackLog, styleVars>>

(* ----------------------------- isActive ------------------------------ *)
\* isActive(), lines 492-494
IsActive == ~finished

(* ------------------------------ system -------------------------------- *)
\* the options of the jobs whose render loop is run: FPS and time, with at
\* most MaxFrames frames
JobOptions ==
    {o \in Options : o.begin = 0 /\ o.imagesCount = 0 /\
        InitialImagesCount(OrDefault(o.FPS, DefaultFPS),
                           OrDefault(o.time, DefaultTimeMS)) <= MaxFrames}

Next ==
    \/ \E kind \in LoadKinds : Load(kind)
    \/ \E which \in {"current", "old"} : ReaderOnload(which)
    \/ AfterLoadTimer
    \/ \E o \in JobOptions : Render(o)
    \/ \E which \in {"next", "orphan"} : RenderNextFrame(which)
    \/ ImageOnload
    \/ Pause
    \/ Resume

Spec == Init /\ [][Next]_vars

\* The browser's event loop runs every timer that stays pending and
\* completes every decode and every read that was started.
EventLoopFair ==
    /\ WF_vars(RenderNextFrame("next"))
    /\ WF_vars(RenderNextFrame("orphan"))
    /\ WF_vars(ImageOnload)
    /\ WF_vars(AfterLoadTimer)
    /\ WF_vars(ReaderOnload("current"))
    /\ WF_vars(ReaderOnload("old"))

SpecFair == Spec /\ EventLoopFair

\* The style pipeline of one render step, lines 320-330, on every scene:
\* clone the live scene, strip the drivers from the clone, take the
\* snapshot of the live scene, apply it to the clone.
CloneScene ==
    /\ stylePc = "seeked"
    /\ svgElementNew' = <<CloneNode(scene)>>
    /\ stylePc' = "cloned"
    /\ UNCHANGED <<objVars, envVars, histVars, scene, additionalData>>

StripDrivers ==
    /\ stylePc = "cloned"
    /\ svgElementNew' = <<FilterOut(svgElementNew[1], DriverTags)>>
    /\ stylePc' = "filtered"
    /\ UNCHANGED <<objVars, envVars, histVars, scene, additionalData>>

TakeSnapshot ==
    /\ stylePc = "filtered"
    /\ additionalData' = <<ExportStyle(scene, DriverTags)>>
    /\ stylePc' = "exported"
    /\ UNCHANGED <<objVars, envVars, histVars, scene, svgElementNew>>

ApplySnapshot ==
    /\ stylePc = "exported"
    /\ svgElementNew' = <<ImportStyle(svgElementNew[1], additionalData)>>
    /\ stylePc' = "imported"
    /\ UNCHANGED <<objVars, envVars, histVars, scene, additionalData>>

NextStyle ==
    \/ CloneScene
    \/ StripDrivers
    \/ TakeSnapshot
    \/ ApplySnapshot

\* a fresh instance and any scene
InitScenes == InitJob /\ \E sc \in Scenes : InitStyle(sc)

SpecStyle == InitScenes /\ [][NextStyle]_vars

\* render() applied to every combination of options, on an instance that
\* load has left loaded or not; no deferred callback is run
NextCfg ==
    \/ \E kind \in LoadKinds : Load(kind)
    \/ \E o \in Options : Render(o)

SpecCfg == Init /\ [][NextCfg]_vars

TypeOK ==
    /\ loaded \in BOOLEAN /\ interrupted \in BOOLEAN /\ finished \in BOOLEAN
    /\ nextFrame \in {"null", "pending", "stale"}
    /\ orphanTimers \in Nat
    /\ Len(images) = imagesDoneCount

(* ------------------------------ claims -------------------------------- *)
\* r = Math.round(num/den), stated as a relation: r - 1/2 <= num/den < r + 1/2
IsRounded(r, num, den) ==
    /\ 2 * den * r - den <= 2 * num
    /\ 2 * num < 2 * den * r + den

\* a single job: one load, one render, accepted
SingleJob == nLoad = 1 /\ nRender = 1 /\ lastRender.ret

\* the step produced a frame / invoked the progress signal
FrameDelivered == Len(images') > Len(images)
ProgressSignalled == Len(progressLog') > Len(progressLog)

\* the step is a call of render()
RenderCalled == nRender' = nRender + 1

\* C1: in a single job, under any interleaving of pause() and resume() with
\* timer firings and decode completions, at most one rasterization is in
\* flight: no render step starts before the onload of the previous one.
C1_OneRasterizationInFlight ==
    (nLoad <= 1 /\ nRender <= 1) => Len(inflight) <= 1

\* C2: a job of N >= 1 frames that runs to Finished without pause has invoked
\* the progress signal exactly N times, with (0,N), (1,N), ..., (N-1,N) in
\* that order.
C2_ProgressSequence ==
    (SingleJob /\ nPause = 0 /\ finished /\ imagesCount >= 1)
        => progressLog = [i \in 1..imagesCount |-> <<i - 1, imagesCount>>]

\* C3: imagesDoneCount never exceeds the frame count of the job, and when the
\* job is Finished exactly imagesCount frames have been produced.
C3_ExactlyFrameCountFrames ==
    (SingleJob /\ imagesCount >= 1)
        => /\ imagesDoneCount <= imagesCount
           /\ finished => (Len(images) = imagesCount /\ imagesDoneCount = imagesCount)

\* C4: after a pause() called while a step was scheduled and no image was in
\* flight, nothing is delivered (no frame, no progress signal) before resume()
\* is called, and the first frame delivered after it has the index that
\* imagesDoneCount had at the pause, appended to the frames already there.
C4_PauseBetweenSteps ==
    [][ (pausePhase \in {"paused", "resumed"} /\ (FrameDelivered \/ ProgressSignalled))
          => /\ pausePhase = "resumed"
             /\ imagesDoneCount = pauseMark[1]
             /\ Len(images) = pauseMark[1]
             /\ Len(images') = pauseMark[1] + 1
             /\ SubSeq(images', 1, Len(images)) = images
             /\ progressLog' = Append(progressLog, <<pauseMark[1], imagesCount>>)
      ]_vars

\* C4 witness: a frame was delivered after a pause between steps and a resume
C4_Witness ==
    /\ pausePhase = "delivered"
    /\ Len(images) = pauseMark[1] + 1
    /\ pauseMark[1] >= 1

\* C5: after a pause() called while an image was in flight, and until
\* resume(), no next step is scheduled and renderNextFrame never throws.
C5_PauseInFlightSafe ==
    /\ pausedInFlight = "yes" => nextFrame # "pending"
    /\ pausedInFlight # "faulted"

\* C6: render() on an instance whose job is active returns false and leaves
\* the counters and the scheduled step of that job unchanged.
C6_SecondRenderRejected ==
    [][ (RenderCalled /\ nRender >= 1 /\ lastRender.ret /\ ~finished /\ ~halted)
          => /\ ~lastRender'.ret
             /\ UNCHANGED <<imagesDoneCount, images, imagesCount, nextFrame,
                            orphanTimers>>
      ]_vars

\* the caller gave all three of FPS, time and imagesCount
AllThreeGiven(o) == o.FPS # 0 /\ o.time # 0 /\ o.imagesCount # 0

\* C7: on a loaded instance, render() given all three of FPS, time and
\* imagesCount returns false, records the error message and schedules no step
\* when imagesCount differs from round(FPS*time); otherwise it returns true
\* and schedules the first step.
C7_ConflictingTriple ==
    [][ (RenderCalled /\ loaded /\ AllThreeGiven(lastRender'.opts))
          => LET o == lastRender'.opts
             IN IF IsRounded(o.imagesCount, o.FPS * o.time, 1000)
                THEN /\ lastRender'.ret
                     /\ nextFrame' = "pending"
                     /\ orphanTimers' = OrphansAfterSchedule
                ELSE /\ ~lastRender'.ret
                     /\ errMessage' = MsgConflict
                     /\ UNCHANGED <<nextFrame, orphanTimers, inflight>>
      ]_vars

\* C7 witness: both cases have happened on the instance: an inconsistent
\* triple was just rejected while the step of an accepted job is scheduled
C7_Witness ==
    /\ loaded
    /\ AllThreeGiven(lastRender.opts)
    /\ ~IsRounded(lastRender.opts.imagesCount,
                  lastRender.opts.FPS * lastRender.opts.time, 1000)
    /\ ~lastRender.ret
    /\ errMessage = MsgConflict
    /\ nextFrame = "pending"

\* the caller gave imagesCount and exactly one of FPS, time
CountAndOneGiven(o) == o.imagesCount # 0 /\ ((o.FPS # 0) # (o.time # 0))

\* C8: given imagesCount and exactly one of FPS, time, the job's frame count is
\* the given imagesCount and frameCount = round(FPS * timeMS / 1000).
C8_GivenCountUsed ==
    (nRender >= 1 /\ lastRender.ret /\ CountAndOneGiven(lastRender.opts))
        => /\ imagesCount = lastRender.opts.imagesCount
           /\ IsRounded(imagesCount, FPS.num * timeMS.num,
                        1000 * FPS.den * timeMS.den)

\* C9: on a loaded instance, render() given no imagesCount is accepted with
\* imagesCount = round(FPS * timeMS / 1000), FPS being 60 and timeMS being 1000
\* when not given.
C9_DerivedCount ==
    [][ (RenderCalled /\ loaded /\ lastRender'.opts.imagesCount = 0)
          => LET o == lastRender'.opts
                 f == IF o.FPS = 0 THEN 60 ELSE o.FPS
                 t == IF o.time = 0 THEN 1000 ELSE o.time
             IN /\ lastRender'.ret
                /\ IsRounded(imagesCount', f * t, 1000)
                /\ FPS' = Rat(f, 1)
                /\ timeMS' = Rat(t, 1)
      ]_vars

\* C9 witness: a job derived from a given FPS and a given time, at a tie
C9_Witness ==
    /\ lastRender.ret
    /\ lastRender.opts.imagesCount = 0
    /\ lastRender.opts.FPS = 3
    /\ lastRender.opts.time = 500
    /\ imagesCount = 2

\* C10: render() on an instance that is not loaded returns false, sets the
\* error message, schedules no step and does not install its progress signal
\* (which is therefore never invoked).
C10_NotLoadedRejected ==
    [][ (RenderCalled /\ ~loaded)
          => /\ ~lastRender'.ret
             /\ errMessage' = MsgNotLoaded
             /\ UNCHANGED <<nextFrame, orphanTimers, inflight, progressSignal,
                            progressLog, imagesDoneCount, images>>
      ]_vars

\* C10 witness: render() was rejected while the blob given to load is still
\* being read
C10_Witness ==
    /\ nRender >= 1
    /\ ~lastRender.ret
    /\ errMessage = MsgNotLoaded
    /\ reader = "pending"
    /\ ~loaded
    /\ progressSignal = 0

\* C11: load() given a Blob or File whose type is not image/svg+xml does
\* not throw (the failure goes to the error argument of the load callback)
\* and leaves the instance not loaded.
C11_WrongBlobTypeReported ==
    /\ loadThrown # MsgWrongType
    /\ loadThrown # "" => ~loaded

\* C12: when a job accepted by render(options, callback) finishes, the
\* callback given to render() is invoked exactly once, and it is not invoked
\* before the job has finished.
C12_CompletionSignalled ==
    SingleJob => callbackLog = (IF finished THEN <<callback>> ELSE <<>>)

\* the step is a throw of renderNextFrame
StepFaulted == ~halted /\ halted'

\* C13: isActive() is false once the job has finished or failed: after
\* the normal completion, after render() returned false (not loaded, or
\* conflicting parameters) and after a render step threw.
C13_InactiveOnceFinishedOrFailed ==
    [][ /\ (RenderCalled /\ ~lastRender'.ret) => ~IsActive'
        /\ StepFaulted => ~IsActive'
        /\ (recorder = "recording" /\ recorder' = "inactive") => ~IsActive' ]_vars

\* how many times the load callback id was invoked
Invocations(id) == Cardinality({i \in 1..Len(loadCbLog) : loadCbLog[i] = id})

\* every load() so far was given an element or a markup string: no reader
\* was created, and each call set one timer
EveryLoadDirect == reader = "none" /\ loadTimers + Len(loadCbLog) = nLoad

\* C14: every successful load(source, callback) invokes its own callback
\* exactly once, also when a second load() is called before the deferred
\* callback of the first has run: no load callback is invoked twice, and
\* once the timers of successful loads have all fired each of their
\* callbacks has been invoked.
C14_OwnLoadCallbackOnce ==
    /\ \A id \in 1..nLoad : Invocations(id) <= 1
    /\ (EveryLoadDirect /\ loadTimers = 0) =>
           \A id \in 1..nLoad : Invocations(id) = 1

\* the step is a run of renderNextFrame that starts a rasterization
StepStarted == Len(inflight') > Len(inflight)

\* C15: load() discards the previous job: after a load() called on an
\* instance whose job is rendering or paused, no render step of that job
\* runs and none of its frames or progress signals is delivered.
C15_LoadDiscardsJob ==
    [][ discardedJob =>
          ~(StepStarted \/ FrameDelivered \/ ProgressSignalled) ]_vars

\* a job accepted by a render() called before any pause(), and still the
\* only job
UnpausedStart == SingleJob /\ nPause = 0

\* C16: under fair timers and decode completions, every job accepted by
\* render() eventually finishes, provided each pause() is eventually
\* followed by a resume() (the instance does not stay interrupted),
\* wherever in the step cycle the pause() and the resume() occur.
C16_AcceptedJobFinishes ==
    ([]<>(~interrupted)) =>
        [](UnpausedStart => <>(finished \/ ~SingleJob))

\* the transform that identity x ctm x transformAnim gives for a snapshot
\* node, a factor left out when the snapshot does not hold it
ComposedTransform(data) ==
    LET ctm == IF "ctm" \in DOMAIN data THEN data.ctm ELSE Identity
        anim == IF "transformAnim" \in DOMAIN data THEN data.transformAnim
                ELSE Identity
    IN Multiply(Multiply(Identity, ctm), anim)

RECURSIVE TransformsComposed(_, _)
TransformsComposed(el, data) ==
    /\ el.transform = <<GetReadable(ComposedTransform(data))>>
    /\ \A i \in 1..Len(Children(el)) :
          i <= Len(data.children) =>
              TransformsComposed(Children(el)[i], data.children[i])

\* C17: for every node, the transform importStyle sets on the clone is
\* identity x ctm x transformAnim, with the ctm and the transformAnim that
\* exportStyle captured for the paired live node: a captured transformAnim
\* is never dropped.
C17_TransformAnimApplied ==
    stylePc = "imported" =>
        TransformsComposed(svgElementNew[1], additionalData[1])

\* no node with a driver tag below el
RECURSIVE NoDriverIn(_)
NoDriverIn(el) ==
    \A i \in 1..Len(el.childNodes) :
        /\ ~InList(DriverTags, el.childNodes[i].tagName)
        /\ NoDriverIn(el.childNodes[i])

\* the i-th element child of el is the copy of the live node the i-th
\* child of the snapshot was taken from, at every depth
RECURSIVE SameShape(_, _)
SameShape(el, data) ==
    /\ Len(Children(el)) = Len(data.children)
    /\ \A i \in 1..Len(Children(el)) :
          /\ Children(el)[i].id = data.children[i].of
          /\ SameShape(Children(el)[i], data.children[i])

\* importStyle applied to every element exactly one snapshot node, its own
RECURSIVE PairedOwn(_)
PairedOwn(el) ==
    /\ el.paired = <<el.id>>
    /\ \A i \in 1..Len(Children(el)) : PairedOwn(Children(el)[i])

\* C18: for every scene and the fixed driver tags, the clone after
\* filterOut and the snapshot exportStyle takes of the live scene have the
\* same shape: no node with a driver tag remains at any depth of the clone,
\* the i-th element child of a clone node corresponds to the i-th child of
\* the snapshot node, and importStyle pairs no node with the data of
\* another node or with missing data.
C18_CloneMatchesSnapshot ==
    /\ stylePc \in {"filtered", "exported", "imported"} =>
           NoDriverIn(svgElementNew[1])
    /\ stylePc \in {"exported", "imported"} =>
           SameShape(svgElementNew[1], additionalData[1])
    /\ stylePc = "imported" => PairedOwn(svgElementNew[1])

\* a scene <svg><animate/><g><animate/><rect/></g></svg> after the step:
\* the rect, second child of the group in the live scene, is the only child
\* of the group in the clone and was given its own data
C18_Witness ==
    /\ stylePc = "imported"
    /\ Len(scene.childNodes) = 2
    /\ scene.childNodes[1].tagName = "animate"
    /\ scene.childNodes[2].tagName = "g"
    /\ Len(scene.childNodes[2].childNodes) = 2
    /\ scene.childNodes[2].childNodes[1].tagName = "animate"
    /\ scene.childNodes[2].childNodes[2].tagName = "rect"
    /\ Len(svgElementNew[1].childNodes) = 1
    /\ Len(svgElementNew[1].childNodes[1].childNodes) = 1
    /\ svgElementNew[1].childNodes[1].childNodes[1].paired = << <<2, 2>> >>

\* the node of the live scene at a position
RECURSIVE NodeAt(_, _)
NodeAt(node, path) ==
    IF path = <<>> THEN node
    ELSE NodeAt(node.childNodes[Head(path)], Tail(path))

\* the transform of a live node: its matrix relative to its parent composed
\* with its animated transform
LiveTransform(live) ==
    Multiply(Multiply(Identity, IF live.ctm # <<>> THEN live.ctm[1] ELSE Identity),
             live.transformAnim)

\* el, a node of the clone, carries every computed style property of the
\* live node it was copied from, and its transform; so do its descendants
RECURSIVE RoundTrip(_)
RoundTrip(el) ==
    LET live == NodeAt(scene, el.id)
    IN /\ \A k \in 1..Len(live.computed) :
             /\ live.computed[k].name \in DOMAIN el.style
             /\ el.style[live.computed[k].name] =
                    [value |-> live.computed[k].value,
                     priority |-> live.computed[k].priority]
       /\ el.transform = <<GetReadable(LiveTransform(live))>>
       /\ \A i \in 1..Len(Children(el)) : RoundTrip(Children(el)[i])

\* C19: round trip: after exportStyle on the live scene and importStyle on
\* its driver-stripped clone, every node of the clone carries, for every
\* resolved style property of the paired live node, the same value and the
\* same priority, and the same transform.
C19_StyleRoundTrip ==
    stylePc = "imported" => RoundTrip(svgElementNew[1])

\* C20: in a single job, under any interleaving of pause() and resume()
\* with timer firings and decode completions, the frame stored at index i
\* of images is the picture of the image whose render step read
\* imagesDoneCount = i, that is of the scene at SVGtimeAt(i).
C20_FrameAtItsIndex ==
    (nLoad <= 1 /\ nRender <= 1) =>
        \A i \in 1..Len(images) : images[i] = <<i - 1>>

\* C21: finished is absorbing for a job: once finished is true no render
\* step runs, no progress signal is invoked and no frame is stored,
\* whatever pause() and resume() calls, timers and decode completions
\* follow.
C21_FinishedAbsorbing ==
    [][ (SingleJob /\ finished) =>
          ~(StepStarted \/ FrameDelivered \/ ProgressSignalled) ]_vars

============================================================================
